---- MODULE Spec2Model ----
(***************************************************************************)
(* Model of the dividend_stocks pipeline:                                  *)
(*   filter_dividend_stocks.py  writes all_dividend_symbols.txt            *)
(*   get_daily_prices.py        reads it back (_get_symbols)               *)
(*   dashboard.py               load_data: reads it back, then analyses    *)
(*                              every dividend_stocks/<symbol>.csv         *)
(*                                                                         *)
(* Strings that are written and read back are sequences of tokens, so that *)
(* formatting is concatenation and strip() removes whitespace tokens.      *)
(* A CSV file is a record: kind ("missing" | "zero" (0 bytes) | "malformed"*)
(* | "csv"), hasDateCol, rows.  A row is [ExDate, Amount]; ExDate models   *)
(* the text of the "Ex-Dividend Date" cell: fmt says whether it has the    *)
(* shape digits/digits/digits, m d y are then its three numbers.           *)
(***************************************************************************)
EXTENDS Integers, Sequences, FiniteSets, TLC

VARIABLES
    all_symbols,       \* all_symbols.csv: [exists, rows: Seq([Symbol, Sector])]
    dividend_files,    \* dividend_stocks/<symbol>.csv, by symbol
    symbols_txt,       \* all_dividend_symbols.txt: [exists, lines]
    filter_ran,        \* filter_dividend_stocks has run
    dividend_symbols,  \* filter_dividend_stocks: the local list of line 17, as a set
    price_symbols,     \* get_daily_prices: [read, symbols] result of _get_symbols
    pc,                \* load_data: position in the function
    current_year,      \* load_data local (line 31)
    df,                \* load_data: df["Symbol"] after the isin filter (line 28)
    idx,               \* load_data: number of symbols the for loop has taken
    yearly_dividends,  \* load_data local list (line 34)
    tooltips,          \* load_data local list (line 35)
    div_df,            \* load_data local data frame of the current symbol
    div_df_period,     \* load_data local (line 70)
    unique_years,      \* load_data local (line 77)
    path               \* trace: for each symbol taken, the control path it ended on

vars == <<all_symbols, dividend_files, symbols_txt, filter_ran, dividend_symbols,
          price_symbols, pc, current_year, df, idx, yearly_dividends, tooltips,
          div_df, div_df_period, unique_years, path>>

---------------------------------------------------------------------------
(* Bounds of the model *)

BaseYear == 2024        \* the newest event year; "now" is BaseYear or the year after
MaxRows == 5            \* rows of the one richly populated dividend file
NumSymbols == 2         \* symbols of a batch

(* Program constants *)

EvalYears == 5          \* start_year = current_year - 5
TooltipYears == 10      \* current_year - 10
MinYears == 3           \* len(unique_years) < 3

---------------------------------------------------------------------------
(* Small helpers on sequences *)

Range(s) == {s[i] : i \in 1..Len(s)}

RemoveAt(s, k) == [i \in 1..(Len(s) - 1) |-> IF i < k THEN s[i] ELSE s[i + 1]]

Last(s) == s[Len(s)]

---------------------------------------------------------------------------
(* Text: a string that is written and read back is a sequence of tokens *)

Whitespace == {" ", "\t", "\n"}

RECURSIVE LStrip(_)
LStrip(s) == IF s # <<>> /\ Head(s) \in Whitespace THEN LStrip(Tail(s)) ELSE s

RECURSIVE RStrip(_)
RStrip(s) ==
    IF s # <<>> /\ Last(s) \in Whitespace THEN RStrip(SubSeq(s, 1, Len(s) - 1)) ELSE s

\* str.strip()
Strip(s) == RStrip(LStrip(s))

\* the symbols of the model, in the order sorted() gives them
SymbolNames == <<"A", "B", "C", "D", "E">>

Syms == {<<SymbolNames[i]>> : i \in 1..NumSymbols}

SymRank(sym) == CHOOSE i \in 1..Len(SymbolNames) : sym = <<SymbolNames[i]>>

---------------------------------------------------------------------------
(* Dates *)

NaT == [nat |-> TRUE, year |-> 0, month |-> 0, day |-> 0]

IsLeap(y) == (y % 4 = 0 /\ y % 100 # 0) \/ y % 400 = 0

DaysInMonth(m, y) ==
    IF m = 2 THEN (IF IsLeap(y) THEN 29 ELSE 28)
    ELSE IF m \in {4, 6, 9, 11} THEN 30 ELSE 31

\* pd.to_datetime(text, format="%m/%d/%Y", errors='coerce') of one cell
to_datetime(raw) ==
    IF raw.fmt /\ raw.m \in 1..12 /\ raw.d >= 1 /\ raw.d <= DaysInMonth(raw.m, raw.y)
    THEN [nat |-> FALSE, year |-> raw.y, month |-> raw.m, day |-> raw.d]
    ELSE NaT

\* Series.dt.year >= bound: the year of NaT is NaN, and NaN >= bound is False
YearGE(date, bound) == ~date.nat /\ date.year >= bound

\* the order of two Timestamps
DateKey(date) ==
    IF date.nat THEN 0 - 1 ELSE date.year * 10000 + date.month * 100 + date.day

\* Timestamp.strftime("%Y-%m-%d")
strftime(date) ==
    [iso |-> TRUE, fmt |-> TRUE, y |-> date.year, m |-> date.month, d |-> date.day]

\* str(row["Ex-Dividend Date"])
RawStr(raw) == [iso |-> FALSE, fmt |-> raw.fmt, y |-> raw.y, m |-> raw.m, d |-> raw.d]

---------------------------------------------------------------------------
(* dashboard.load_data: the data-frame steps of one symbol *)

Indeterminate == "-"

Header == "| Date | Amount |\n|---|---|\n"

\* pd.read_csv raises on a 0-byte file (EmptyDataError) and on malformed rows
ReadRaises(file) == file.kind \in {"zero", "malformed"}

\* div_df.empty or "Ex-Dividend Date" not in div_df.columns
EmptyOrNoDate(file) == Len(file.rows) = 0 \/ ~file.hasDateCol

\* div_df["Date"] = pd.to_datetime(div_df["Ex-Dividend Date"], ...)
ParseDates(d) ==
    [i \in 1..Len(d) |->
        [ExDate |-> d[i].ExDate, Amount |-> d[i].Amount, Date |-> to_datetime(d[i].ExDate)]]

\* a slip: the result of sort_values is dropped, the frame stays in file order
NoSort(d) == {d}

\* div_df.sort_values("Date", ascending=False): the default sort kind is not
\* stable, so rows of equal date may come in any order; NaT rows go last
RECURSIVE SortDescending(_)
SortDescending(d) ==
    IF d = <<>> THEN {<<>>}
    ELSE LET mx == CHOOSE k \in {DateKey(d[i].Date) : i \in 1..Len(d)} :
                       \A i \in 1..Len(d) : DateKey(d[i].Date) <= k
             first == {i \in 1..Len(d) : DateKey(d[i].Date) = mx}
         IN  UNION {{<<d[i]>> \o t : t \in SortDescending(RemoveAt(d, i))} : i \in first}

\* a slip: the window of the tooltip used for the score
start_year_wide(year) == year - TooltipYears

\* start_year = current_year - 5
start_year(year) == year - EvalYears

\* div_df[div_df["Date"].dt.year >= bound]
FilterYearGE(d, bound) == SelectSeq(d, LAMBDA r : YearGE(r.Date, bound))

\* one line of the tooltip table
TooltipRow(r) ==
    [date |-> IF ~r.Date.nat THEN strftime(r.Date) ELSE RawStr(r.ExDate),
     amount |-> r.Amount]

\* tooltip_md: the header, then one line per row of tooltip_df
TooltipMd(d, year) ==
    LET tooltip_df == FilterYearGE(d, year - TooltipYears)
    IN  <<Header>> \o [i \in 1..Len(tooltip_df) |-> TooltipRow(tooltip_df[i])]

\* sorted(div_df_period["Date"].dt.year.unique())
RECURSIVE SortedSeq(_)
SortedSeq(S) ==
    IF S = {} THEN <<>>
    ELSE LET mn == CHOOSE x \in S : \A y \in S : x <= y
         IN  <<mn>> \o SortedSeq(S \ {mn})

UniqueYears(d) == SortedSeq({d[i].Date.year : i \in 1..Len(d)})

\* a slip: no year is trimmed
YearsToIncludeAll(years) == years

\* unique_years[1:-1]
YearsToInclude(years) == SubSeq(years, 2, Len(years) - 1)

\* a slip: the distinct dates of a year are counted (nunique), not its rows
CountsDistinct(d, years) ==
    [y \in Range(years) |-> Cardinality({d[i].Date : i \in {h \in 1..Len(d) : d[h].Date.year = y}})]

\* div_df_calc.groupby(div_df_calc["Date"].dt.year).size(), as a function of the year
Counts(d, years) ==
    [y \in Range(years) |-> Cardinality({i \in 1..Len(d) : d[i].Date.year = y})]

\* lines 98-103: the value appended to yearly_dividends
ConsistencyScore(d, years) ==
    LET counts == Counts(d, YearsToInclude(years))
        unique_counts == {counts[y] : y \in DOMAIN counts}
    IN  IF Cardinality(unique_counts) = 1
        THEN ToString(CHOOSE c \in unique_counts : TRUE)
        ELSE Indeterminate

\* lines 70-103 as a function of the parsed frame: the value appended to
\* yearly_dividends when no exception is raised
YearlyDividend(d, year) ==
    LET period == FilterYearGE(d, start_year(year))
        years == UniqueYears(period)
    IN  IF period = <<>> \/ Len(years) < 2 \/ Len(years) < MinYears
        THEN Indeterminate
        ELSE ConsistencyScore(period, years)

\* lines 45-103 as a function of the file: the (score, tooltip) pairs load_data
\* can append for it when no statement other than read_csv raises
Analyse(file, year) ==
    IF ReadRaises(file) \/ EmptyOrNoDate(file)
    THEN {[score |-> Indeterminate, tooltip |-> <<>>]}
    ELSE {[score |-> YearlyDividend(s, year), tooltip |-> TooltipMd(s, year)] :
              s \in SortDescending(ParseDates(file.rows))}

---------------------------------------------------------------------------
(* The inputs the model draws *)

Cell(m, d, y) == [fmt |-> TRUE, m |-> m, d |-> d, y |-> y]

NotADate == [fmt |-> FALSE, m |-> 0, d |-> 0, y |-> 0]      \* "N/A"

Row(date, amount) == [ExDate |-> date, Amount |-> amount]

\* the rows a dividend file is made of, oldest first; files list them in this
\* order, so load_data's sort has work to do
RowPool ==
    << Row(Cell(3, 15, BaseYear - 11), "0.25"),
       Row(Cell(3, 15, BaseYear - 10), "0.25"),
       Row(Cell(3, 15, BaseYear - 5), "0.25"),
       Row(Cell(3, 15, BaseYear - 4), "0.25"),
       Row(NotADate, "0.25"),
       Row(Cell(3, 15, BaseYear - 3), "0.25"),
       Row(Cell(3, 15, BaseYear - 3), "0.5"),
       Row(Cell(9, 15, BaseYear - 3), "0.25"),
       Row(Cell(3, 15, BaseYear - 2), "0.25"),
       Row(Cell(3, 15, BaseYear - 1), "0.25"),
       Row(Cell(3, 15, BaseYear), "0.25") >>

Recent(n) == Row(Cell(3, 15, BaseYear - n), "0.25")

\* the non-decreasing index sequences of length n over lo..Len(RowPool)
RECURSIVE NonDecreasing(_, _)
NonDecreasing(n, lo) ==
    IF n = 0 THEN {<<>>}
    ELSE UNION {{<<i>> \o t : t \in NonDecreasing(n - 1, i)} : i \in lo..Len(RowPool)}

RowsOf(ix) == [i \in 1..Len(ix) |-> RowPool[ix[i]]]

Csv(rows) == [kind |-> "csv", hasDateCol |-> TRUE, rows |-> rows]

Missing == [kind |-> "missing", hasDateCol |-> FALSE, rows |-> <<>>]

\* every file of at most MaxRows rows of the pool (a header-only file included)
RichFiles == {Csv(RowsOf(ix)) : ix \in UNION {NonDecreasing(n, 1) : n \in 0..MaxRows}}

\* the files of a batch: missing, 0 bytes, malformed, header only, without the
\* date column, all dates unparsable, two years, three uniform years
SmallFiles ==
    { Missing,
      [kind |-> "zero", hasDateCol |-> FALSE, rows |-> <<>>],
      [kind |-> "malformed", hasDateCol |-> TRUE, rows |-> <<>>],
      Csv(<<>>),
      [kind |-> "csv", hasDateCol |-> FALSE, rows |-> <<Recent(0)>>],
      Csv(<<Row(NotADate, "0.25"), Row(Cell(13, 15, BaseYear - 2), "0.25")>>),
      Csv(<<Recent(1), Recent(0)>>),
      Csv(<<Recent(2), Recent(1), Recent(0)>>) }

Sector(i) == IF i = 1 THEN <<"Technology">> ELSE <<"Energy">>

SymbolRows(n) == [i \in 1..n |-> [Symbol |-> <<SymbolNames[i]>>, Sector |-> Sector(i)]]

\* all_dividend_symbols.txt with one bare symbol per line, and a blank line
BareLines(n) == [i \in 1..n |-> <<SymbolNames[i], "\n">>] \o << <<"\n">> >>

NoFrame == <<>>

InitLoadData ==
    /\ filter_ran = FALSE
    /\ dividend_symbols = {}
    /\ price_symbols = [read |-> FALSE, symbols |-> <<>>]
    /\ pc = "begin"
    /\ current_year = 0
    /\ df = <<>>
    /\ idx = 0
    /\ yearly_dividends = <<>>
    /\ tooltips = <<>>
    /\ div_df = NoFrame
    /\ div_df_period = NoFrame
    /\ unique_years = <<>>
    /\ path = <<>>

\* one symbol, whose dividend file is any file of RichFiles
InitOne ==
    /\ all_symbols = [exists |-> TRUE, rows |-> SymbolRows(1)]
    /\ \E f \in RichFiles :
           dividend_files = [s \in Syms |-> IF s = <<SymbolNames[1]>> THEN f ELSE Missing]
    /\ symbols_txt = [exists |-> TRUE, lines |-> BareLines(1)]

\* a batch of NumSymbols symbols, each with any file of SmallFiles
InitBatch ==
    /\ \E e \in BOOLEAN : all_symbols = [exists |-> e, rows |-> SymbolRows(NumSymbols)]
    /\ dividend_files \in [Syms -> SmallFiles]
    /\ \E e \in BOOLEAN : symbols_txt = [exists |-> e, lines |-> BareLines(NumSymbols)]

Init == InitLoadData /\ (InitOne \/ InitBatch)

---------------------------------------------------------------------------
(* filter_dividend_stocks.py and get_daily_prices.py *)

\* len(f.readlines()) of a dividend file: the header and one line per row; a
\* malformed file is one read_csv rejects although it has data lines
LineCount(file) ==
    IF file.kind = "zero" THEN 0
    ELSE IF file.kind = "malformed" THEN 2
    ELSE 1 + Len(file.rows)

\* symbol_sectors.get(symbol, "Unknown")
SectorOf(symbol) ==
    LET hits == {i \in 1..Len(all_symbols.rows) : all_symbols.rows[i].Symbol = symbol}
    IN  IF all_symbols.exists /\ hits # {}
        THEN all_symbols.rows[CHOOSE i \in hits : \A j \in hits : j <= i].Sector
        ELSE <<"Unknown">>

\* f"{symbol},{sector}\n"
FormatLine(symbol) == symbol \o <<",">> \o SectorOf(symbol) \o <<"\n">>

\* sorted(dividend_symbols)
RECURSIVE SortedSymbols(_)
SortedSymbols(S) ==
    IF S = {} THEN <<>>
    ELSE LET mn == CHOOSE x \in S : \A y \in S : SymRank(x) <= SymRank(y)
         IN  <<mn>> \o SortedSymbols(S \ {mn})

\* the lines of the file read the way both consumers read them:
\* line.strip() for line in f if line.strip()
StrippedLines(lines) ==
    LET stripped == [i \in 1..Len(lines) |-> Strip(lines[i])]
    IN  SelectSeq(stripped, LAMBDA l : l # <<>>)

filter_dividend_stocks ==
    /\ pc = "begin"
    /\ ~filter_ran
    /\ LET present == {s \in Syms : dividend_files[s].kind # "missing"}
           keep == {s \in present : LineCount(dividend_files[s]) > 1}
           sorted == SortedSymbols(keep)
       IN  /\ dividend_symbols' = keep
           /\ symbols_txt' = [exists |-> TRUE,
                              lines |-> [i \in 1..Len(sorted) |-> FormatLine(sorted[i])]]
           /\ dividend_files' =
                  [s \in Syms |-> IF s \in present \ keep THEN Missing ELSE dividend_files[s]]
    /\ filter_ran' = TRUE
    /\ UNCHANGED <<all_symbols, price_symbols, pc, current_year, df, idx,
                   yearly_dividends, tooltips, div_df, div_df_period, unique_years, path>>

\* get_daily_prices: symbols = _get_symbols(), after the filter stage
_get_symbols ==
    /\ pc = "begin"
    /\ filter_ran
    /\ ~price_symbols.read
    /\ price_symbols' =
           [read |-> TRUE,
            symbols |-> IF symbols_txt.exists THEN StrippedLines(symbols_txt.lines) ELSE <<>>]
    /\ UNCHANGED <<all_symbols, dividend_files, symbols_txt, filter_ran, dividend_symbols,
                   pc, current_year, df, idx, yearly_dividends, tooltips, div_df,
                   div_df_period, unique_years, path>>

---------------------------------------------------------------------------
(* dashboard.load_data *)

pipeline == <<all_symbols, dividend_files, symbols_txt, filter_ran, dividend_symbols,
              price_symbols>>

\* the years datetime.now().year may give
Now == {BaseYear, BaseYear + 1}

\* the positions inside the try block of lines 44-103
TryBlock == {"read", "parse", "sort", "tooltip", "period", "years", "calc"}

symbol == df[idx]

\* df[df["Symbol"].isin(dividend_symbols)]["Symbol"]
IsIn(rows, lines) ==
    LET names == Range(StrippedLines(lines))
        column == [i \in 1..Len(rows) |-> rows[i].Symbol]
    IN  SelectSeq(column, LAMBDA sym : sym \in names)

\* lines 14-35; either early return gives an empty DataFrame
LoadDataBegin ==
    /\ pc = "begin"
    /\ IF symbols_txt.exists /\ all_symbols.exists
       THEN /\ df' = IsIn(all_symbols.rows, symbols_txt.lines)
            /\ \E y \in Now : current_year' = y
            /\ pc' = "loop"
       ELSE /\ pc' = "done"
            /\ UNCHANGED <<df, current_year>>
    /\ yearly_dividends' = <<>>
    /\ tooltips' = <<>>
    /\ UNCHANGED <<pipeline, idx, div_df, div_df_period, unique_years, path>>

\* one symbol ends: both appends of a branch that ends with continue
Finish(score, tip, how) ==
    /\ yearly_dividends' = Append(yearly_dividends, score)
    /\ tooltips' = Append(tooltips, tip)
    /\ path' = Append(path, how)
    /\ pc' = "loop"

\* one symbol ends after its tooltip was appended (line 67)
FinishScore(score, how) ==
    /\ yearly_dividends' = Append(yearly_dividends, score)
    /\ path' = Append(path, how)
    /\ pc' = "loop"
    /\ UNCHANGED tooltips

\* lines 105-108: except Exception.  The trace says whether the exception came
\* before ("except") or after ("except_late") the append of line 67
Except ==
    Finish(Indeterminate, <<>>,
           IF pc \in {"period", "years", "calc"} THEN "except_late" ELSE "except")

\* lines 37-42: the next symbol has no file
ForMissing ==
    /\ pc = "loop"
    /\ idx < Len(df)
    /\ dividend_files[df[idx + 1]].kind = "missing"
    /\ idx' = idx + 1
    /\ Finish(Indeterminate, <<>>, "missing")
    /\ UNCHANGED <<pipeline, current_year, df, div_df, div_df_period, unique_years>>

\* lines 37-39, 44: the next symbol has a file
ForEnter ==
    /\ pc = "loop"
    /\ idx < Len(df)
    /\ dividend_files[df[idx + 1]].kind # "missing"
    /\ idx' = idx + 1
    /\ pc' = "read"
    /\ UNCHANGED <<pipeline, current_year, df, yearly_dividends, tooltips, div_df,
                   div_df_period, unique_years, path>>

\* lines 45-49
Read ==
    /\ pc = "read"
    /\ LET file == dividend_files[symbol]
       IN  IF ReadRaises(file)
           THEN Except /\ UNCHANGED div_df
           ELSE /\ div_df' = file.rows
                /\ IF EmptyOrNoDate(file)
                   THEN Finish(Indeterminate, <<>>, "empty")
                   ELSE pc' = "parse" /\ UNCHANGED <<yearly_dividends, tooltips, path>>
    /\ UNCHANGED <<pipeline, current_year, df, idx, div_df_period, unique_years>>

\* line 52
Parse ==
    /\ pc = "parse"
    /\ div_df' = ParseDates(div_df)
    /\ pc' = "sort"
    /\ UNCHANGED <<pipeline, current_year, df, idx, yearly_dividends, tooltips,
                   div_df_period, unique_years, path>>

\* line 55
Sort ==
    /\ pc = "sort"
    /\ div_df' \in SortDescending(div_df)
    /\ pc' = "tooltip"
    /\ UNCHANGED <<pipeline, current_year, df, idx, yearly_dividends, tooltips,
                   div_df_period, unique_years, path>>

\* lines 60-67
Tooltip ==
    /\ pc = "tooltip"
    /\ tooltips' = Append(tooltips, TooltipMd(div_df, current_year))
    /\ pc' = "period"
    /\ UNCHANGED <<pipeline, current_year, df, idx, yearly_dividends, div_df,
                   div_df_period, unique_years, path>>

\* lines 70-74
Period ==
    /\ pc = "period"
    /\ div_df_period' = FilterYearGE(div_df, start_year(current_year))
    /\ IF div_df_period' = <<>>
       THEN FinishScore(Indeterminate, "window")
       ELSE pc' = "years" /\ UNCHANGED <<yearly_dividends, tooltips, path>>
    /\ UNCHANGED <<pipeline, current_year, df, idx, div_df, unique_years>>

\* lines 77-88
Years ==
    /\ pc = "years"
    /\ unique_years' = UniqueYears(div_df_period)
    /\ IF Len(unique_years') < 2
       THEN FinishScore(Indeterminate, "oneyear")
       ELSE IF Len(unique_years') < MinYears
       THEN FinishScore(Indeterminate, "twoyears")
       ELSE pc' = "calc" /\ UNCHANGED <<yearly_dividends, tooltips, path>>
    /\ UNCHANGED <<pipeline, current_year, df, idx, div_df, div_df_period>>

\* lines 90-103
Calc ==
    /\ pc = "calc"
    /\ LET score == ConsistencyScore(div_df_period, unique_years)
       IN  FinishScore(score, IF score = Indeterminate THEN "nonuniform" ELSE "uniform")
    /\ UNCHANGED <<pipeline, current_year, df, idx, div_df, div_df_period, unique_years>>

\* an exception raised by a statement of the try block, caught at line 105
Raise ==
    /\ pc \in TryBlock
    /\ Except
    /\ UNCHANGED <<pipeline, current_year, df, idx, div_df, div_df_period, unique_years>>

\* the loop is over; lines 110-111: pandas raises ValueError when the length
\* of a list differs from the number of rows of df
Assign ==
    /\ pc = "loop"
    /\ idx = Len(df)
    /\ pc' = IF Len(yearly_dividends) = Len(df) /\ Len(tooltips) = Len(df)
             THEN "done" ELSE "failed"
    /\ UNCHANGED <<pipeline, current_year, df, idx, yearly_dividends, tooltips, div_df,
                   div_df_period, unique_years, path>>

Next ==
    \/ filter_dividend_stocks
    \/ _get_symbols
    \/ LoadDataBegin
    \/ ForMissing
    \/ ForEnter
    \/ Read
    \/ Parse
    \/ Sort
    \/ Tooltip
    \/ Period
    \/ Years
    \/ Calc
    \/ Raise
    \/ Assign

Spec == Init /\ [][Next]_vars

---------------------------------------------------------------------------
(* Vocabulary of the properties: a symbol's history, read from its file *)

\* the symbols load_data has finished with, by position in df
Taken == 1..Len(path)

Raised(k) == path[k] \in {"except", "except_late"}

\* the records of symbol k: the rows of its file when it has the date column
Records(k) ==
    LET file == dividend_files[df[k]]
    IN  IF file.kind = "csv" /\ file.hasDateCol THEN file.rows ELSE <<>>

\* the records of symbol k whose date parses (its valid events), by position
ValidIdx(k) == {i \in 1..Len(Records(k)) : ~to_datetime(Records(k)[i].ExDate).nat}

EventYear(k, i) == Records(k)[i].ExDate.y

\* valid events with eventYear >= currentYear - n
Since(k, n) == {i \in ValidIdx(k) : EventYear(k, i) >= current_year - n}

EvalYearSet(k) == {EventYear(k, i) : i \in Since(k, EvalYears)}

\* the distinct years of the evaluation window without the earliest and the latest
Interior(k) ==
    {y \in EvalYearSet(k) : (\E a \in EvalYearSet(k) : a < y) /\ (\E b \in EvalYearSet(k) : b > y)}

EventsInYear(k, y) == Cardinality({i \in ValidIdx(k) : EventYear(k, i) = y})

\* the entry of tooltips that was built for symbol k: every earlier symbol that
\* raised after line 67 left two entries
Rendering(k) == tooltips[k + Cardinality({j \in 1..(k - 1) : path[j] = "except_late"})]

RenderedRows(k) == IF Rendering(k) = <<>> THEN <<>> ELSE Tail(Rendering(k))

\* the line a valid event is shown as: its date as year-month-day, its amount
Shown(r) ==
    [date |-> [iso |-> TRUE, fmt |-> TRUE, y |-> r.ExDate.y, m |-> r.ExDate.m, d |-> r.ExDate.d],
     amount |-> r.Amount]

Later(a, b) ==
    \/ a.y > b.y
    \/ a.y = b.y /\ a.m > b.m
    \/ a.y = b.y /\ a.m = b.m /\ a.d >= b.d

\* every step of load_data agrees with the function Analyse of the file
StepsAgreeWithAnalyse ==
    \A k \in Taken : ~Raised(k) =>
        [score |-> yearly_dividends[k], tooltip |-> Rendering(k)]
            \in Analyse(dividend_files[df[k]], current_year)

---------------------------------------------------------------------------
(* C1: when the evaluation window of a symbol holds at least 3 distinct years,
   the earliest and the latest are trimmed; the score is n when every remaining
   year has exactly n events, and Indeterminate when two of them differ. *)
C1_TrimmedUniformScore ==
    \A k \in Taken : (~Raised(k) /\ Cardinality(EvalYearSet(k)) >= 3) =>
        LET ns == {EventsInYear(k, y) : y \in Interior(k)}
        IN  IF Cardinality(ns) = 1
            THEN yearly_dividends[k] = ToString(CHOOSE n \in ns : TRUE)
            ELSE yearly_dividends[k] = Indeterminate

C1_Witness ==
    \E k \in Taken :
        /\ path[k] = "uniform"
        /\ Cardinality(EvalYearSet(k)) >= 3
        /\ yearly_dividends[k] = "2"

(* C2: a symbol whose evaluation window is empty or holds fewer than 3
   distinct years has the score Indeterminate, however many events it has. *)
C2_FewYearsIndeterminate ==
    \A k \in Taken : Cardinality(EvalYearSet(k)) < 3 => yearly_dividends[k] = Indeterminate

C2_Witness ==
    \E k \in Taken :
        /\ path[k] = "twoyears"
        /\ Cardinality(Since(k, EvalYears)) >= 3
        /\ yearly_dividends[k] = Indeterminate

(* C3: a symbol with no valid event in the rendering window gets the empty
   string as its rendering, never the header alone, and the score
   Indeterminate. *)
C3_EmptyRenderingWhenNoEvents ==
    \A k \in Taken : (~Raised(k) /\ Since(k, TooltipYears) = {}) =>
        Rendering(k) = <<>> /\ yearly_dividends[k] = Indeterminate

(* C4: an exception raised anywhere in one symbol's processing leaves that
   symbol with the score Indeterminate and the rendering '', the lists aligned
   for the symbols that follow, and load_data still returns its table. *)
C4_ExceptionContained ==
    /\ pc # "failed"
    /\ pc = "loop" =>
           \A k \in Taken : Raised(k) =>
               /\ yearly_dividends[k] = Indeterminate
               /\ Len(tooltips) = Len(path)
               /\ tooltips[k] = <<>>

\* the records of symbol k without the events older than currentYear - 4
RecentRecords(k) ==
    SelectSeq(Records(k),
              LAMBDA r : to_datetime(r.ExDate).nat
                         \/ r.ExDate.y >= current_year - (EvalYears - 1))

NoFutureEvent(k) == \A i \in ValidIdx(k) : EventYear(k, i) <= current_year

(* C5: the evaluation window is the 5 calendar years currentYear-4 ..
   currentYear: for a history with no event after the current year, the score
   is the score of its events of those years, and no older event changes it. *)
C5_FiveYearWindow ==
    \A k \in Taken : (~Raised(k) /\ NoFutureEvent(k)) =>
        yearly_dividends[k] = YearlyDividend(ParseDates(RecentRecords(k)), current_year)

(* C6: the rendering of a symbol lists exactly its valid events with
   eventYear >= currentYear - 10, one (date, amount) line per event, most
   recent first, whatever the score. *)
C6_RenderingListsWindow ==
    \A k \in Taken : ~Raised(k) =>
        LET rows == RenderedRows(k)
            want == Since(k, TooltipYears)
            line(i) == Shown(Records(k)[i])
        IN  /\ Len(rows) = Cardinality(want)
            /\ \A i \in want :
                   Cardinality({j \in 1..Len(rows) : rows[j] = line(i)})
                       = Cardinality({h \in want : line(h) = line(i)})
            /\ \A j \in 1..(Len(rows) - 1) : Later(rows[j].date, rows[j + 1].date)

C6_Witness ==
    \E k \in Taken :
        /\ ~Raised(k)
        /\ \E i \in ValidIdx(k) : EventYear(k, i) = current_year - TooltipYears
        /\ \E i \in ValidIdx(k) : EventYear(k, i) = current_year - TooltipYears - 1
        /\ Len(RenderedRows(k)) >= 3
        /\ \E i, j \in Since(k, TooltipYears) : i < j /\ EventYear(k, i) < EventYear(k, j)

(* C7: a record whose date does not parse is dropped silently: the result of
   a symbol equals the result of the same file without that record. *)
C7_UnparsableDropped ==
    \A k \in Taken : ~Raised(k) =>
        \A j \in (1..Len(Records(k))) \ ValidIdx(k) :
            [score |-> yearly_dividends[k], tooltip |-> Rendering(k)]
                \in Analyse([dividend_files[df[k]] EXCEPT !.rows = RemoveAt(Records(k), j)],
                            current_year)

\* the same, for a file that keeps at least one record
UnparsableDroppedAmongOthers ==
    \A k \in Taken : (~Raised(k) /\ Len(Records(k)) >= 2) =>
        \A j \in (1..Len(Records(k))) \ ValidIdx(k) :
            [score |-> yearly_dividends[k], tooltip |-> Rendering(k)]
                \in Analyse([dividend_files[df[k]] EXCEPT !.rows = RemoveAt(Records(k), j)],
                            current_year)

\* the records of symbol k that share the date of record i
SameDate(k, i) == {h \in ValidIdx(k) : Records(k)[h].ExDate = Records(k)[i].ExDate}

(* C8: no deduplication: records with the same ex-dividend date are all kept,
   each gives a line of the rendering and each counts in its year's cadence. *)
C8_DuplicatesKept ==
    \A k \in Taken : ~Raised(k) =>
        /\ \A i \in Since(k, TooltipYears) :
               Cardinality({j \in 1..Len(RenderedRows(k)) :
                                RenderedRows(k)[j].date = Shown(Records(k)[i]).date})
                   = Cardinality(SameDate(k, i))
        /\ path[k] = "uniform" =>
               \A y \in Interior(k) : yearly_dividends[k] = ToString(EventsInYear(k, y))

C8_Witness ==
    \E k \in Taken :
        /\ path[k] = "uniform"
        /\ \E i \in ValidIdx(k) :
               /\ EventYear(k, i) \in Interior(k)
               /\ Cardinality(SameDate(k, i)) = 2
               /\ EventsInYear(k, EventYear(k, i)) = 2
        /\ yearly_dividends[k] = "2"

(* C9: whenever the loop of load_data is between two symbols, yearly_dividends
   and tooltips both have one entry per symbol taken so far. *)
C9_ListsGrowTogether ==
    pc = "loop" => Len(yearly_dividends) = idx /\ Len(tooltips) = idx

(* C10: every symbol filter_dividend_stocks records in
   all_dividend_symbols.txt is read back as that symbol: _get_symbols returns
   it, and load_data keeps its row of all_symbols.csv. *)
C10_SymbolsRoundTrip ==
    /\ (filter_ran /\ price_symbols.read) =>
           \A s \in dividend_symbols : s \in Range(price_symbols.symbols)
    /\ (filter_ran /\ pc # "begin" /\ all_symbols.exists) =>
           \A s \in dividend_symbols :
               (\E i \in 1..Len(all_symbols.rows) : all_symbols.rows[i].Symbol = s)
                   => s \in Range(df)

\* the calendar years strictly between the earliest and the latest event year
\* of the evaluation window of symbol k
YearsBetween(k) ==
    {y \in current_year - EvalYears .. current_year + 1 :
        (\E a \in EvalYearSet(k) : a < y) /\ (\E b \in EvalYearSet(k) : b > y)}

(* C11: a known score n is never 0 and is the number of events of every
   calendar year strictly between the earliest and the latest event year of
   the evaluation window; a year between them without any event makes the
   score Indeterminate. *)
C11_SkippedYearIndeterminate ==
    \A k \in Taken : (~Raised(k) /\ yearly_dividends[k] # Indeterminate) =>
        /\ yearly_dividends[k] # "0"
        /\ \A y \in YearsBetween(k) : yearly_dividends[k] = ToString(EventsInYear(k, y))

\* the same, for the years between them that have an event
KnownScoreIsCadenceOfYearsPresent ==
    \A k \in Taken : (~Raised(k) /\ yearly_dividends[k] # Indeterminate) =>
        /\ yearly_dividends[k] # "0"
        /\ \A y \in YearsBetween(k) \cap EvalYearSet(k) :
               yearly_dividends[k] = ToString(EventsInYear(k, y))

====
